---- MODULE Spec2Model ----
(***************************************************************************)
(* Model of the MELCloud config flow                                       *)
(* (homeassistant/components/melcloud/config_flow.py).                     *)
(*                                                                         *)
(* Each flow session is a FlowHandler instance.  A handler runs until it   *)
(* awaits the remote API (pymelcloud.login, pymelcloud.get_devices) or the *)
(* unique-id assignment, or until it returns a FlowResult; one action of   *)
(* the model is one such run.  The host's entry store, issue registry and  *)
(* task queue are shared by all sessions.                                  *)
(***************************************************************************)
EXTENDS Integers, Sequences, FiniteSets, TLC

VARIABLES flows, entries, issues, tasks, started

vars == <<flows, entries, issues, tasks, started>>

-----------------------------------------------------------------------------
(* Bounds of the model *)

MaxSessions == 3
MaxEntries == 3
MaxTasks == 1

\* Two sessions can be in progress at once; a closed session frees its slot.
Flows == {1, 2}
EntryIds == 1..MaxEntries

-----------------------------------------------------------------------------
(* Constants of the program *)

DOMAIN_MELCLOUD == "melcloud"
HOMEASSISTANT_DOMAIN == "homeassistant"
SOURCE_USER == "user"
SOURCE_IMPORT == "import"
SOURCE_REAUTH == "reauth"

UNAUTHORIZED == 401
FORBIDDEN == 403

-----------------------------------------------------------------------------
(* Inputs *)

Usernames == {"user@example.com", "other@example.com"}
Passwords == {"secret"}

\* The tokens the remote API issues, per account.
TokensOf ==
  [u \in Usernames |->
     IF u = "user@example.com" THEN {"tok-123", "tok-456"}
                               ELSE {"tok-789"}]
Tokens == UNION {TokensOf[u] : u \in Usernames}

NoString == ""

\* What the awaited remote calls can raise.
NoExc == [cls |-> "", status |-> 0, name |-> ""]
ClientResponseError(s) == [cls |-> "ClientResponseError", status |-> s, name |-> ""]
ClientErrorExc == [cls |-> "ClientError", status |-> 0, name |-> ""]
TimeoutErrorExc == [cls |-> "TimeoutError", status |-> 0, name |-> ""]
AttributeErrorExc(n) == [cls |-> "AttributeError", status |-> 0, name |-> n]
ValueErrorExc == [cls |-> "ValueError", status |-> 0, name |-> ""]

Exceptions ==
  {ClientResponseError(s) : s \in {UNAUTHORIZED, FORBIDDEN, 500}}
    \cup {ClientErrorExc, TimeoutErrorExc, ValueErrorExc}
    \cup {AttributeErrorExc(n) : n \in {"get", "json"}}

-----------------------------------------------------------------------------
(* Flow results *)

NoErrors == [k \in {} |-> ""]
NoData == [k \in {} |-> ""]

NoResult ==
  [type |-> "none", step_id |-> "", reason |-> "", errors |-> NoErrors,
   title |-> "", data |-> NoData]

ShowForm(step_id, errors) ==
  [type |-> "form", step_id |-> step_id, reason |-> "", errors |-> errors,
   title |-> "", data |-> NoData]

Abort(reason) ==
  [type |-> "abort", step_id |-> "", reason |-> reason, errors |-> NoErrors,
   title |-> "", data |-> NoData]

CreateEntryResult(title, data) ==
  [type |-> "create_entry", step_id |-> "", reason |-> "", errors |-> NoErrors,
   title |-> title, data |-> data]

\* An exception that leaves the handler and reaches the host.
Raised(exc) ==
  [type |-> "raised", step_id |-> "", reason |-> exc.cls, errors |-> NoErrors,
   title |-> "", data |-> NoData]

-----------------------------------------------------------------------------
(* Flow sessions *)

\* submitted: the session has handled a form submission; failed: one of its
\* submissions ended in a form with an error.
IdleFlow ==
  [source |-> "", pc |-> "idle", username |-> NoString, password |-> NoString,
   token |-> NoString, unique_id |-> NoString, entry_id |-> 0, entry |-> 0,
   calls |-> <<>>, notices |-> <<>>, reloads |-> 0, result |-> NoResult,
   submitted |-> FALSE, failed |-> FALSE]

\* The log of the remote calls of the handler invocation in progress (or the
\* last one): the function, the token passed, what the call raised.
Call(fn, token) == [fn |-> fn, token |-> token, raised |-> NoExc]

CallRaised(calls, exc) == [calls EXCEPT ![Len(calls)].raised = exc]

Init ==
  /\ flows = [f \in Flows |-> IdleFlow]
  /\ entries = <<>>
  /\ issues = {}
  /\ tasks = <<>>
  /\ started = 0

\* The host starts a flow in the first free slot.
CanStart(f) ==
  /\ flows[f].pc = "idle"
  /\ \A g \in Flows : g < f => flows[g].pc # "idle"
  /\ started < MaxSessions

-----------------------------------------------------------------------------
(* async_create_import_issue *)

\* f"deprecated_yaml_import_issue_{issue}" and f"deprecated_yaml_{DOMAIN}" are
\* kept as <<prefix, suffix>>.
Notice(domain, issue_id, severity, translation_key) ==
  [domain |-> domain, issue_id |-> issue_id, severity |-> severity,
   is_fixable |-> FALSE, breaks_in_ha_version |-> "2024.2.0",
   translation_key |-> translation_key]

ImportFailureNotice(issue) ==
  Notice(DOMAIN_MELCLOUD, <<"deprecated_yaml_import_issue", issue>>, "ERROR",
         <<"deprecated_yaml_import_issue", issue>>)

DeprecatedYamlNotice ==
  Notice(HOMEASSISTANT_DOMAIN, <<"deprecated_yaml", DOMAIN_MELCLOUD>>, "WARNING",
         <<"deprecated_yaml", "">>)

\* The calls to async_create_issue one call of async_create_import_issue makes.
ImportIssueUnguarded(source, issue, success) ==
  IF ~success THEN <<ImportFailureNotice(issue)>> ELSE <<DeprecatedYamlNotice>>

ImportIssueSwapped(source, issue, success) ==
  IF source # SOURCE_IMPORT THEN <<>>
  ELSE IF success THEN <<ImportFailureNotice(issue)>> ELSE <<DeprecatedYamlNotice>>

ImportIssue(source, issue, success) ==
  IF source # SOURCE_IMPORT THEN <<>>
  ELSE IF ~success THEN <<ImportFailureNotice(issue)>>
  ELSE <<DeprecatedYamlNotice>>

\* The issue registry holds one issue per (domain, issue_id).
RECURSIVE RegisterIssues(_, _)
RegisterIssues(reg, ns) ==
  IF ns = <<>> THEN reg
  ELSE RegisterIssues(
         {i \in reg : ~(i.domain = Head(ns).domain /\ i.issue_id = Head(ns).issue_id)}
           \cup {Head(ns)},
         Tail(ns))

-----------------------------------------------------------------------------
(* Error classification *)

\* _create_client: the kind the except clauses give, "raise" when none catches.
ClassifyCreateClientMissingField(exc) ==
  IF exc.cls = "ClientResponseError"
  THEN IF exc.status \in {UNAUTHORIZED, FORBIDDEN} THEN "invalid_auth"
       ELSE "cannot_connect"
  ELSE IF exc.cls = "AttributeError" /\ exc.name = "get" THEN "invalid_auth"
  ELSE IF exc.cls \in {"TimeoutError", "ClientError"} THEN "cannot_connect"
  ELSE "raise"

ClassifyCreateClient(exc) ==
  IF exc.cls = "ClientResponseError"
  THEN IF exc.status \in {UNAUTHORIZED, FORBIDDEN} THEN "invalid_auth"
       ELSE "cannot_connect"
  ELSE IF exc.cls \in {"TimeoutError", "ClientError"} THEN "cannot_connect"
  ELSE "raise"

\* async_reauthenticate_client
ClassifyReauthTimeoutAuth(exc) ==
  IF exc.cls \in {"ClientResponseError", "AttributeError"}
  THEN IF exc.cls = "ClientResponseError" /\ exc.status \in {UNAUTHORIZED, FORBIDDEN}
       THEN "invalid_auth"
       ELSE IF exc.cls = "AttributeError" /\ exc.name = "get" THEN "invalid_auth"
       ELSE "cannot_connect"
  ELSE IF exc.cls \in {"TimeoutError", "ClientError"} THEN "invalid_auth"
  ELSE "raise"

ClassifyReauth(exc) ==
  IF exc.cls \in {"ClientResponseError", "AttributeError"}
  THEN IF exc.cls = "ClientResponseError" /\ exc.status \in {UNAUTHORIZED, FORBIDDEN}
       THEN "invalid_auth"
       ELSE IF exc.cls = "AttributeError" /\ exc.name = "get" THEN "invalid_auth"
       ELSE "cannot_connect"
  ELSE IF exc.cls \in {"TimeoutError", "ClientError"} THEN "cannot_connect"
  ELSE "raise"

-----------------------------------------------------------------------------
(* The entry store *)

Entry(unique_id, title, data) ==
  [unique_id |-> unique_id, title |-> title, data |-> data]

EntryFor(store, unique_id) ==
  {i \in DOMAIN store : store[i].unique_id = unique_id}

\* async_get_entry: 0 stands for None.
GetEntry(store, entry_id) ==
  IF entry_id \in DOMAIN store THEN entry_id ELSE 0

\* _abort_if_unique_id_configured: TRUE when it raises AbortFlow.
AbortIfUniqueIdConfigured(store, unique_id) ==
  EntryFor(store, unique_id) # {}

\* The store once _abort_if_unique_id_configured has found the unique id
\* configured: the credential passed with the check is context of the abort,
\* the stored entry is left as it is.
StoreAfterDuplicateMerged(store, unique_id, updates) ==
  [i \in DOMAIN store |->
     IF store[i].unique_id = unique_id
     THEN [store[i] EXCEPT !.data =
             [k \in DOMAIN store[i].data \cup DOMAIN updates |->
                IF k \in DOMAIN updates THEN updates[k] ELSE store[i].data[k]]]
     ELSE store[i]]

StoreAfterDuplicate(store, unique_id, updates) == store

\* async_update_entry(entry, data=...): the entry's data is replaced.
UpdateEntry(store, entry_id, data) ==
  [store EXCEPT ![entry_id].data = data]

\* The host stores the entry of a create_entry result under the flow's unique id.
AddEntry(store, unique_id, title, data) ==
  Append(store, Entry(unique_id, title, data))

-----------------------------------------------------------------------------
(* FlowHandler *)

\* _create_entry once async_set_unique_id has returned: the duplicate check,
\* the notice on AbortFlow, the create_entry result.
CreateEntryNoCheck(fl, store) ==
  [result |-> CreateEntryResult(
                fl.username,
                [username |-> fl.username, token |-> fl.token]),
   notices |-> <<>>,
   aborted |-> FALSE]

CreateEntryWrongKey(fl, store) ==
  IF AbortIfUniqueIdConfigured(store, fl.token)
  THEN [result |-> Abort("already_configured"),
        notices |-> ImportIssue(fl.source, "", TRUE),
        aborted |-> TRUE]
  ELSE [result |-> CreateEntryResult(
                     fl.username,
                     [username |-> fl.username, token |-> fl.token]),
        notices |-> <<>>,
        aborted |-> FALSE]

CreateEntryStoresPassword(fl, store) ==
  IF AbortIfUniqueIdConfigured(store, fl.unique_id)
  THEN [result |-> Abort("already_configured"),
        notices |-> ImportIssue(fl.source, "", TRUE),
        aborted |-> TRUE]
  ELSE [result |-> CreateEntryResult(
                     fl.username,
                     [username |-> fl.username, token |-> fl.password]),
        notices |-> <<>>,
        aborted |-> FALSE]

CreateEntryNoNoticeOnAbort(fl, store) ==
  IF AbortIfUniqueIdConfigured(store, fl.unique_id)
  THEN [result |-> Abort("already_configured"),
        notices |-> <<>>,
        aborted |-> TRUE]
  ELSE [result |-> CreateEntryResult(
                     fl.username,
                     [username |-> fl.username, token |-> fl.token]),
        notices |-> <<>>,
        aborted |-> FALSE]

CreateEntry(fl, store) ==
  IF AbortIfUniqueIdConfigured(store, fl.unique_id)
  THEN [result |-> Abort("already_configured"),
        notices |-> ImportIssue(fl.source, "", TRUE),
        aborted |-> TRUE]
  ELSE [result |-> CreateEntryResult(
                     fl.username,
                     [username |-> fl.username, token |-> fl.token]),
        notices |-> <<>>,
        aborted |-> FALSE]

\* _create_client up to its first await: login when no token was passed,
\* get_devices with the token otherwise.
CreateClientEnterAlwaysLogin(fl, username, password, token) ==
  [fl EXCEPT !.username = username, !.password = password,
             !.token = NoString,
             !.calls = <<Call("login", NoString)>>, !.pc = "login"]

CreateClientEnter(fl, username, password, token) ==
  IF token = NoString
  THEN [fl EXCEPT !.username = username, !.password = password,
                  !.token = NoString,
                  !.calls = <<Call("login", NoString)>>, !.pc = "login"]
  ELSE [fl EXCEPT !.username = username, !.password = password,
                  !.token = token,
                  !.calls = <<Call("get_devices", token)>>, !.pc = "get_devices"]

\* _create_client: an except clause of the try block.
CreateClientExceptReprompt(fl, exc) ==
  LET kind == ClassifyCreateClient(exc) IN
  IF kind = "raise"
  THEN [result |-> Raised(exc), notices |-> <<>>]
  ELSE [result |-> ShowForm("user", [base |-> kind]),
        notices |-> ImportIssue(fl.source, kind, FALSE)]

CreateClientExcept(fl, exc) ==
  LET kind == ClassifyCreateClient(exc) IN
  IF kind = "raise"
  THEN [result |-> Raised(exc), notices |-> <<>>]
  ELSE [result |-> Abort(kind), notices |-> ImportIssue(fl.source, kind, FALSE)]

\* async_step_import after _create_client has returned a result.
StepImportNotices(source, result) ==
  IF result.type = "create_entry" THEN ImportIssue(source, "", TRUE) ELSE <<>>

\* What the step that called _create_client does with the result returned:
\* async_step_user returns it, async_step_import may record a notice first.
StepNotices(fl, result) ==
  IF fl.source = SOURCE_IMPORT THEN StepImportNotices(fl.source, result) ELSE <<>>

\* async_reauthenticate_client: (acquired_token, errors), or the exception.
ReauthenticateClientNoErrors(token, exc) ==
  IF exc = NoExc
  THEN [token |-> token, errors |-> NoErrors, raised |-> FALSE]
  ELSE IF ClassifyReauth(exc) = "raise"
  THEN [token |-> NoString, errors |-> NoErrors, raised |-> TRUE]
  ELSE [token |-> NoString, errors |-> NoErrors, raised |-> FALSE]

ReauthenticateClient(token, exc) ==
  IF exc = NoExc
  THEN [token |-> token, errors |-> NoErrors, raised |-> FALSE]
  ELSE IF ClassifyReauth(exc) = "raise"
  THEN [token |-> NoString, errors |-> NoErrors, raised |-> TRUE]
  ELSE [token |-> NoString, errors |-> [base |-> ClassifyReauth(exc)], raised |-> FALSE]

\* The handler returns (or raises): its locals are gone, the result is the
\* host's.
Return(fl, pc, result, notices) ==
  [fl EXCEPT !.pc = pc, !.result = result,
             !.username = NoString, !.password = NoString, !.token = NoString,
             !.notices = fl.notices \o notices]

Finish(fl, result, notices) == Return(fl, "finished", result, notices)

\* async_step_reauth_confirm: the update of self.entry on a login without
\* errors.
ReauthUpdateAll(store, fl, token) ==
  [i \in DOMAIN store |-> [store[i] EXCEPT !.data = [token |-> token]]]

ReauthUpdateSkipped(store, fl, token) == store

ReauthUpdate(store, fl, token) ==
  UpdateEntry(store, fl.entry, [token |-> token])

-----------------------------------------------------------------------------
(* Actions *)

\* async_step_user(None)
StartUser(f) ==
  /\ CanStart(f)
  /\ started' = started + 1
  /\ flows' = [flows EXCEPT ![f] =
       [IdleFlow EXCEPT !.source = SOURCE_USER, !.pc = "prompt",
                        !.result = ShowForm("user", NoErrors)]]
  /\ UNCHANGED <<entries, issues, tasks>>

\* async_step_user(user_input)
SubmitUser(f, username, password) ==
  /\ flows[f].pc = "prompt"
  /\ flows[f].source = SOURCE_USER
  /\ flows' = [flows EXCEPT ![f] =
       CreateClientEnter([flows[f] EXCEPT !.result = NoResult,
                                          !.submitted = TRUE],
                         username, password, NoString)]
  /\ UNCHANGED <<entries, issues, tasks, started>>

\* async_step_import(user_input)
StartImport(f, username, token) ==
  /\ CanStart(f)
  /\ started' = started + 1
  /\ flows' = [flows EXCEPT ![f] =
       CreateClientEnter([IdleFlow EXCEPT !.source = SOURCE_IMPORT],
                         username, NoString, token)]
  /\ UNCHANGED <<entries, issues, tasks>>

\* pymelcloud.login returns in _create_client
LoginReturns(f, token) ==
  /\ flows[f].pc = "login"
  /\ flows[f].source # SOURCE_REAUTH
  /\ token \in TokensOf[flows[f].username]
  /\ flows' = [flows EXCEPT ![f] =
       [flows[f] EXCEPT !.token = token,
                        !.calls = Append(flows[f].calls, Call("get_devices", token)),
                        !.pc = "get_devices"]]
  /\ UNCHANGED <<entries, issues, tasks, started>>

\* pymelcloud.get_devices returns; _create_entry awaits async_set_unique_id
GetDevicesReturns(f) ==
  /\ flows[f].pc = "get_devices"
  /\ flows' = [flows EXCEPT ![f] =
       [flows[f] EXCEPT !.unique_id = flows[f].username,
                        !.pc = "set_unique_id"]]
  /\ UNCHANGED <<entries, issues, tasks, started>>

CreateClientRaisesProceeds(f, exc) ==
  /\ flows[f].pc \in {"login", "get_devices"}
  /\ flows[f].source # SOURCE_REAUTH
  /\ flows' = [flows EXCEPT ![f] =
       [flows[f] EXCEPT !.calls = CallRaised(flows[f].calls, exc),
                        !.unique_id = flows[f].username,
                        !.pc = "set_unique_id"]]
  /\ UNCHANGED <<entries, issues, tasks, started>>

\* an awaited call of _create_client raises, or the 10 s timeout expires
CreateClientRaises(f, exc) ==
  /\ flows[f].pc \in {"login", "get_devices"}
  /\ flows[f].source # SOURCE_REAUTH
  /\ LET out == CreateClientExcept(flows[f], exc)
         notices == IF out.result.type = "raised" THEN out.notices
                    ELSE out.notices \o StepNotices(flows[f], out.result)
     IN /\ flows' = [flows EXCEPT ![f] =
               Finish([flows[f] EXCEPT !.calls = CallRaised(flows[f].calls, exc)],
                      out.result, notices)]
        /\ issues' = RegisterIssues(issues, notices)
  /\ UNCHANGED <<entries, tasks, started>>

\* async_set_unique_id returns: the rest of _create_entry, and of
\* async_step_import
Register(f) ==
  /\ flows[f].pc = "set_unique_id"
  /\ LET out == CreateEntry(flows[f], entries)
         notices == IF out.aborted THEN out.notices
                    ELSE StepNotices(flows[f], out.result)
     IN /\ flows' = [flows EXCEPT ![f] = Finish(flows[f], out.result, notices)]
        /\ issues' = RegisterIssues(issues, notices)
        /\ out.result.type = "create_entry" => Len(entries) < MaxEntries
        /\ entries' = IF out.result.type = "create_entry"
                      THEN AddEntry(entries, flows[f].unique_id,
                                    out.result.title, out.result.data)
                      ELSE IF out.aborted
                      THEN StoreAfterDuplicate(entries, flows[f].unique_id,
                                               [token |-> flows[f].token])
                      ELSE entries
  /\ UNCHANGED <<tasks, started>>

\* async_step_reauth(entry_data)
StartReauth(f, entry_id) ==
  /\ CanStart(f)
  /\ started' = started + 1
  /\ flows' = [flows EXCEPT ![f] =
       [IdleFlow EXCEPT !.source = SOURCE_REAUTH, !.entry_id = entry_id,
                        !.entry = GetEntry(entries, entry_id),
                        !.pc = "prompt",
                        !.result = ShowForm("reauth_confirm", NoErrors)]]
  /\ UNCHANGED <<entries, issues, tasks>>

SubmitReauthNoRetry(f, username, password) ==
  /\ flows[f].pc = "prompt"
  /\ flows[f].source = SOURCE_REAUTH
  /\ flows' = [flows EXCEPT ![f] =
       IF flows[f].entry # 0 /\ flows[f].result.errors = NoErrors
       THEN [flows[f] EXCEPT !.username = username, !.password = password,
                             !.token = NoString,
                             !.calls = <<Call("login", NoString)>>,
                             !.submitted = TRUE,
                             !.result = NoResult, !.pc = "login"]
       ELSE Return([flows[f] EXCEPT !.submitted = TRUE], "prompt",
                   flows[f].result, <<>>)]
  /\ UNCHANGED <<entries, issues, tasks, started>>

SubmitReauthNoEntryCheck(f, username, password) ==
  /\ flows[f].pc = "prompt"
  /\ flows[f].source = SOURCE_REAUTH
  /\ flows' = [flows EXCEPT ![f] =
       [flows[f] EXCEPT !.username = username, !.password = password,
                        !.token = NoString,
                        !.calls = <<Call("login", NoString)>>,
                        !.submitted = TRUE,
                        !.result = NoResult, !.pc = "login"]]
  /\ UNCHANGED <<entries, issues, tasks, started>>

\* async_step_reauth_confirm(user_input)
SubmitReauth(f, username, password) ==
  /\ flows[f].pc = "prompt"
  /\ flows[f].source = SOURCE_REAUTH
  /\ flows' = [flows EXCEPT ![f] =
       IF flows[f].entry # 0
       THEN [flows[f] EXCEPT !.username = username, !.password = password,
                             !.token = NoString,
                             !.calls = <<Call("login", NoString)>>,
                             !.submitted = TRUE,
                             !.result = NoResult, !.pc = "login"]
       ELSE Return([flows[f] EXCEPT !.calls = <<>>, !.submitted = TRUE], "prompt",
                   ShowForm("reauth_confirm", NoErrors), <<>>)]
  /\ UNCHANGED <<entries, issues, tasks, started>>

\* pymelcloud.login returns or raises in async_reauthenticate_client; the
\* rest of async_step_reauth_confirm
ReauthLoginDone(f, token, exc) ==
  /\ flows[f].pc = "login"
  /\ flows[f].source = SOURCE_REAUTH
  /\ exc = NoExc => token \in TokensOf[flows[f].username]
  /\ exc # NoExc => token = NoString
  /\ LET out == ReauthenticateClient(token, exc) IN
     IF out.raised
     THEN /\ flows' = [flows EXCEPT ![f] =
                 Finish([flows[f] EXCEPT !.calls = CallRaised(flows[f].calls, exc)],
                        Raised(exc), <<>>)]
          /\ UNCHANGED <<entries, tasks>>
     ELSE IF out.errors = NoErrors
     THEN /\ Len(tasks) < MaxTasks
          /\ entries' = ReauthUpdate(entries, flows[f], out.token)
          /\ tasks' = Append(tasks, flows[f].entry)
          /\ flows' = [flows EXCEPT ![f] =
                 Finish([flows[f] EXCEPT !.reloads = flows[f].reloads + 1],
                        Abort("reauth_successful"), <<>>)]
     ELSE /\ flows' = [flows EXCEPT ![f] =
                 Return([flows[f] EXCEPT !.calls = CallRaised(flows[f].calls, exc),
                                         !.failed = TRUE],
                        "prompt", ShowForm("reauth_confirm", out.errors), <<>>)]
          /\ UNCHANGED <<entries, tasks>>
  /\ UNCHANGED <<issues, started>>

\* the event loop runs a scheduled async_reload
RunReload ==
  /\ tasks # <<>>
  /\ tasks' = Tail(tasks)
  /\ UNCHANGED <<flows, entries, issues, started>>

\* the host drops a finished flow
Close(f) ==
  /\ flows[f].pc = "finished"
  /\ flows' = [flows EXCEPT ![f] = IdleFlow]
  /\ UNCHANGED <<entries, issues, tasks, started>>

Next ==
  \/ \E f \in Flows : StartUser(f)
  \/ \E f \in Flows, u \in Usernames, p \in Passwords : SubmitUser(f, u, p)
  \/ \E f \in Flows, u \in Usernames : \E t \in TokensOf[u] : StartImport(f, u, t)
  \/ \E f \in Flows, t \in Tokens : LoginReturns(f, t)
  \/ \E f \in Flows : GetDevicesReturns(f)
  \/ \E f \in Flows, e \in Exceptions : CreateClientRaises(f, e)
  \/ \E f \in Flows : Register(f)
  \/ \E f \in Flows, i \in EntryIds : StartReauth(f, i)
  \/ \E f \in Flows, u \in Usernames, p \in Passwords : SubmitReauth(f, u, p)
  \/ \E f \in Flows, t \in Tokens \cup {NoString}, e \in Exceptions \cup {NoExc} :
       ReauthLoginDone(f, t, e)
  \/ RunReload
  \/ \E f \in Flows : Close(f)

Spec == Init /\ [][Next]_vars

-----------------------------------------------------------------------------
(* Properties *)

Last(seq) == seq[Len(seq)]

\* The classification policy of the design: authorization rejected (401, 403)
\* is invalid_auth; any other response error, transport error or the expired
\* deadline is cannot_connect.
TransportErrors == {"ClientResponseError", "ClientError", "TimeoutError"}

PolicyKind(exc) ==
  IF exc.cls = "ClientResponseError" /\ exc.status \in {401, 403}
  THEN "invalid_auth" ELSE "cannot_connect"

\* Flow f is in _create_entry, past async_set_unique_id, and takes its step.
Registers(f) ==
  /\ flows[f].pc = "set_unique_id"
  /\ flows'[f].pc = "finished"

OneRecordPerIdentifier ==
  \A i, j \in DOMAIN entries :
    entries[i].unique_id = entries[j].unique_id => i = j

DuplicateAborts ==
  \A f \in Flows :
    Registers(f) /\ EntryFor(entries, flows[f].username) # {}
      => /\ Len(entries') = Len(entries)
         /\ \A i \in DOMAIN entries : entries'[i].unique_id = entries[i].unique_id
         /\ flows'[f].result = Abort("already_configured")

\* C1: the entry store never holds two records for one identifier, and a
\* registration for an identifier that already has a record creates no record
\* and ends in the duplicate abort (already_configured).
C1_AtMostOneRecordPerIdentifier ==
  []OneRecordPerIdentifier /\ [][DuplicateAborts]_vars

C1_Witness ==
  \E f \in Flows :
    /\ flows[f].pc = "finished"
    /\ flows[f].result = Abort("already_configured")
    /\ Cardinality(EntryFor(entries, flows[f].unique_id)) = 1

\* C2: two fresh-setup sessions for the same identifier, interleaved at their
\* awaits in any way, never both end in create_entry.
C2_ConcurrentSetupsNeverBothCreate ==
  \A f, g \in Flows :
    /\ f # g
    /\ flows[f].source = SOURCE_USER /\ flows[g].source = SOURCE_USER
    /\ flows[f].result.type = "create_entry"
    /\ flows[g].result.type = "create_entry"
    => flows[f].result.title # flows[g].result.title

\* One session has created the record while the other, for the same
\* identifier, is past both remote calls and about to register.
C2_Witness ==
  \E f, g \in Flows :
    /\ flows[f].source = SOURCE_USER /\ flows[g].source = SOURCE_USER
    /\ flows[f].result.type = "create_entry"
    /\ flows[g].pc = "set_unique_id"
    /\ flows[g].unique_id = flows[f].result.title

FreshSetupCreates ==
  \A f \in Flows :
    /\ flows[f].source = SOURCE_USER
    /\ Registers(f)
    /\ EntryFor(entries, flows[f].username) = {}
    => LET u == flows[f].username
           T == flows[f].calls[2].token
       IN /\ flows[f].calls[1].fn = "login"
          /\ flows[f].calls[2].fn = "get_devices"
          /\ T \in TokensOf[u]
          /\ T # flows[f].password
          /\ flows'[f].result =
               CreateEntryResult(u, [username |-> u, token |-> T])
          /\ entries' =
               Append(entries, Entry(u, u, [username |-> u, token |-> T]))

\* C3: a fresh setup whose login returned T and whose device enumeration with
\* T succeeded, for an identifier without a record, ends in create_entry with
\* title = identifier and data exactly {username: identifier, token: T}; the
\* token stored is the one login returned, not the password.
C3_FreshSetupCreatesRecord == [][FreshSetupCreates]_vars

C3_Witness ==
  \E f \in Flows, i \in DOMAIN entries :
    /\ flows[f].source = SOURCE_USER
    /\ flows[f].pc = "finished"
    /\ flows[f].calls = <<Call("login", NoString), Call("get_devices", "tok-123")>>
    /\ flows[f].result =
         CreateEntryResult("user@example.com",
                           [username |-> "user@example.com", token |-> "tok-123"])
    /\ entries[i] = Entry("user@example.com", "user@example.com",
                          [username |-> "user@example.com", token |-> "tok-123"])

\* The awaited call of flow f raised an error of the known transport surface.
RaisedTransportError(f) ==
  /\ flows[f].calls # <<>>
  /\ Last(flows[f].calls).raised.cls \in TransportErrors

\* C4 as stated: in fresh setup a classified failure reaches no terminal
\* state; the session is back at the user form with {base: kind}.
C4_ClassifiedFailureReprompts ==
  \A f \in Flows :
    flows[f].source = SOURCE_USER /\ RaisedTransportError(f)
      => /\ flows[f].pc = "prompt"
         /\ flows[f].result =
              ShowForm("user", [base |-> PolicyKind(Last(flows[f].calls).raised)])

\* C4, amended: in fresh setup a classified failure of login or of device
\* enumeration ends the session in the aborted terminal state with the kind
\* as reason (invalid_auth, cannot_connect); no form is shown again and the
\* session never reaches registration.
C4_ClassifiedFailureAborts ==
  \A f \in Flows :
    flows[f].source = SOURCE_USER /\ RaisedTransportError(f)
      => /\ flows[f].pc = "finished"
         /\ flows[f].result = Abort(PolicyKind(Last(flows[f].calls).raised))
         /\ flows[f].unique_id = NoString

C4_Witness ==
  \E f \in Flows :
    /\ flows[f].source = SOURCE_USER
    /\ flows[f].calls = <<[fn |-> "login", token |-> NoString,
                           raised |-> ClientResponseError(401)]>>
    /\ flows[f].pc = "finished"
    /\ flows[f].result = Abort("invalid_auth")

ReauthSuccessUpdatesEntry ==
  \A f \in Flows, T \in Tokens :
    ReauthLoginDone(f, T, NoExc)
      => LET e == flows[f].entry
         IN /\ e \in DOMAIN entries
            /\ DOMAIN entries' = DOMAIN entries
            /\ entries'[e].data.token = T
            /\ entries'[e].unique_id = entries[e].unique_id
            /\ entries'[e].title = entries[e].title
            /\ \A i \in DOMAIN entries : i # e => entries'[i] = entries[i]
            /\ flows'[f].pc = "finished"
            /\ flows'[f].result = Abort("reauth_successful")
            /\ flows'[f].entry = e

ReauthClassified(exc) ==
  \/ exc.cls \in TransportErrors
  \/ exc = AttributeErrorExc("get")

ReauthPolicyKind(exc) ==
  IF exc = AttributeErrorExc("get") THEN "invalid_auth" ELSE PolicyKind(exc)

ReauthFailureKeepsStore ==
  \A f \in Flows, exc \in Exceptions :
    ReauthLoginDone(f, NoString, exc) /\ ReauthClassified(exc)
      => /\ entries' = entries
         /\ tasks' = tasks
         /\ flows'[f].pc = "prompt"
         /\ flows'[f].result =
              ShowForm("reauth_confirm", [base |-> ReauthPolicyKind(exc)])

\* C6: a re-authentication whose login fails with a classified error changes
\* no entry and schedules no reload, and the session is back at the
\* reauth_confirm form with {base: kind} (invalid_auth for rejected
\* credentials).
C6_ReauthFailureLeavesStore == [][ReauthFailureKeepsStore]_vars

C6_Witness ==
  \E f \in Flows :
    /\ flows[f].source = SOURCE_REAUTH
    /\ flows[f].pc = "prompt"
    /\ flows[f].calls = <<[fn |-> "login", token |-> NoString,
                           raised |-> ClientResponseError(401)]>>
    /\ flows[f].result = ShowForm("reauth_confirm", [base |-> "invalid_auth"])
    /\ flows[f].entry \in DOMAIN entries
    /\ entries[flows[f].entry].data =
         [username |-> entries[flows[f].entry].unique_id,
          token |-> entries[flows[f].entry].data.token]
    /\ tasks = <<>>

\* The kind a session reports: the reason of its abort, or the base error of
\* its form.
ReportedKind(fl) ==
  IF fl.result.type = "form" /\ "base" \in DOMAIN fl.result.errors
  THEN fl.result.errors.base
  ELSE fl.result.reason

\* C7: in every mode, a 401 or 403 response is reported as invalid_auth; a
\* response error of another status, another transport error or the expired
\* deadline is reported as cannot_connect (so a timeout never as
\* invalid_auth).
C7_ClassificationPolicy ==
  \A f \in Flows :
    RaisedTransportError(f)
      => ReportedKind(flows[f]) = PolicyKind(Last(flows[f].calls).raised)

C7_Witness ==
  /\ \E f \in Flows :
       /\ flows[f].source = SOURCE_REAUTH
       /\ flows[f].calls # <<>>
       /\ Last(flows[f].calls).raised = TimeoutErrorExc
       /\ ReportedKind(flows[f]) = "cannot_connect"
  /\ \E f \in Flows :
       /\ flows[f].source = SOURCE_IMPORT
       /\ flows[f].calls # <<>>
       /\ Last(flows[f].calls).raised = ClientResponseError(403)
       /\ ReportedKind(flows[f]) = "invalid_auth"

Severity(ns, domain, severity) ==
  Cardinality({i \in DOMAIN ns :
                 ns[i].domain = domain /\ ns[i].severity = severity})

ImportFailureNotices ==
  \A f \in Flows, exc \in Exceptions :
    /\ flows[f].source = SOURCE_IMPORT
    /\ CreateClientRaises(f, exc)
    /\ exc.cls \in TransportErrors
    => LET kind == PolicyKind(exc)
           ns == flows'[f].notices
       IN /\ flows[f].calls = <<Call("get_devices", flows[f].token)>>
          /\ Len(ns) = 1
          /\ Severity(ns, DOMAIN_MELCLOUD, "ERROR") = 1
          /\ Severity(ns, HOMEASSISTANT_DOMAIN, "WARNING") = 0
          /\ ns[1].issue_id = <<"deprecated_yaml_import_issue", kind>>
          /\ ns[1].is_fixable = FALSE
          /\ issues' = RegisterIssues(issues, ns)
          /\ entries' = entries
          /\ flows'[f].pc = "finished"
          /\ flows'[f].result = Abort(kind)

\* C8: a legacy import whose device enumeration fails with a classified error
\* records exactly one ERROR notice of the integration, keyed by the kind, and
\* no WARNING notice of the platform, creates no record and aborts with that
\* kind as reason.
C8_ImportFailureNotice == [][ImportFailureNotices]_vars

C8_Witness ==
  \E f \in Flows :
    /\ flows[f].source = SOURCE_IMPORT
    /\ flows[f].pc = "finished"
    /\ flows[f].calls # <<>>
    /\ Last(flows[f].calls).raised = TimeoutErrorExc
    /\ flows[f].result = Abort("cannot_connect")
    /\ flows[f].notices = <<ImportFailureNotice("cannot_connect")>>
    /\ issues = {ImportFailureNotice("cannot_connect")}
    /\ entries = <<>>

ImportSuccessNotices ==
  \A f \in Flows :
    flows[f].source = SOURCE_IMPORT /\ Registers(f)
      => LET ns == flows'[f].notices
         IN /\ Len(ns) = 1
            /\ Severity(ns, HOMEASSISTANT_DOMAIN, "WARNING") = 1
            /\ Severity(ns, DOMAIN_MELCLOUD, "ERROR") = 0
            /\ issues' = RegisterIssues(issues, ns)
            /\ IF EntryFor(entries, flows[f].username) # {}
               THEN /\ flows'[f].result = Abort("already_configured")
                    /\ Len(entries') = Len(entries)
               ELSE /\ flows'[f].result.type = "create_entry"
                    /\ Len(entries') = Len(entries) + 1

\* C9: a legacy import whose token validates records exactly one WARNING
\* notice of the platform and no ERROR notice of the integration, when the
\* record is created and also when registration is rejected as a duplicate,
\* in which case the flow still aborts.
C9_ImportSuccessNotice == [][ImportSuccessNotices]_vars

\* One import has created its record, another was rejected as a duplicate;
\* each recorded the one WARNING notice.
C9_Witness ==
  \E f, g \in Flows :
    /\ flows[f].source = SOURCE_IMPORT /\ flows[g].source = SOURCE_IMPORT
    /\ flows[f].result.type = "create_entry"
    /\ flows[g].result = Abort("already_configured")
    /\ flows[f].notices = <<DeprecatedYamlNotice>>
    /\ flows[g].notices = <<DeprecatedYamlNotice>>
    /\ issues = {DeprecatedYamlNotice}

OnlyImportNotifies ==
  \A f \in Flows :
    flows'[f] # flows[f] /\ flows'[f].source \in {SOURCE_USER, SOURCE_REAUTH}
      => /\ issues' = issues
         /\ flows'[f].notices = <<>>

\* C10: no step of a fresh-setup or re-authentication session, whatever its
\* outcome, changes the issue registry; only a legacy import records a
\* notice.
C10_OnlyImportNotifies == [][OnlyImportNotifies]_vars

\* Fresh setups have ended in a classified failure and in a duplicate abort,
\* and the registry is empty.
C10_Witness ==
  /\ issues = {}
  /\ \E f, g \in Flows :
       /\ flows[f].source = SOURCE_USER /\ flows[g].source = SOURCE_USER
       /\ flows[f].result = Abort("already_configured")
       /\ flows[g].result = Abort("cannot_connect")

\* The error surface the design knows: the transport errors and, on
\* re-authentication, the response without the expected field.
KnownSurface(source, exc) ==
  \/ exc.cls \in TransportErrors
  \/ source = SOURCE_REAUTH /\ exc = AttributeErrorExc("get")

\* C11: in every mode an exception outside the known error surface leaves the
\* handler unclassified: the session ends with the exception raised to the
\* host, not with a form and not with an abort of kind invalid_auth or
\* cannot_connect.
C11_UnknownExceptionPropagates ==
  \A f \in Flows :
    /\ flows[f].calls # <<>>
    /\ Last(flows[f].calls).raised # NoExc
    /\ ~KnownSurface(flows[f].source, Last(flows[f].calls).raised)
    => /\ flows[f].pc = "finished"
       /\ flows[f].result = Raised(Last(flows[f].calls).raised)

MissingFieldAsymmetry ==
  \A f \in Flows :
    /\ (ReauthLoginDone(f, NoString, AttributeErrorExc("get"))
          => /\ flows'[f].pc = "prompt"
             /\ flows'[f].result =
                  ShowForm("reauth_confirm", [base |-> "invalid_auth"]))
    /\ (CreateClientRaises(f, AttributeErrorExc("get"))
          => /\ flows'[f].pc = "finished"
             /\ flows'[f].result = Raised(AttributeErrorExc("get"))
             /\ flows'[f].notices = <<>>
             /\ flows'[f].unique_id = NoString
             /\ issues' = issues
             /\ entries' = entries)

\* C12: a response without the expected field (AttributeError named "get") is
\* invalid_auth on re-authentication only; in fresh setup and legacy import it
\* is not classified: the exception reaches the host, no kind is reported, no
\* notice is recorded and no record is created.
C12_MissingFieldOnlyOnReauth == [][MissingFieldAsymmetry]_vars

C12_Witness ==
  /\ \E f \in Flows :
       /\ flows[f].source = SOURCE_REAUTH
       /\ flows[f].calls # <<>>
       /\ Last(flows[f].calls).raised = AttributeErrorExc("get")
       /\ flows[f].result = ShowForm("reauth_confirm", [base |-> "invalid_auth"])
  /\ \E f \in Flows :
       /\ flows[f].source = SOURCE_IMPORT
       /\ flows[f].calls # <<>>
       /\ Last(flows[f].calls).raised = AttributeErrorExc("get")
       /\ flows[f].result = Raised(AttributeErrorExc("get"))
       /\ flows[f].notices = <<>>

Fns(calls) == [i \in DOMAIN calls |-> calls[i].fn]

\* The remote calls a session has made, by mode.
CallOrder ==
  \A f \in Flows :
    LET c == flows[f].calls IN
    /\ flows[f].source = SOURCE_USER
         => /\ Fns(c) \in {<<>>, <<"login">>, <<"login", "get_devices">>}
            /\ Len(c) = 2 => c[1].raised = NoExc
    /\ flows[f].source = SOURCE_IMPORT
         => Fns(c) = <<"get_devices">>
    /\ flows[f].source = SOURCE_REAUTH
         => Fns(c) \in {<<>>, <<"login">>}

\* The token each get_devices call is made with.
CallTokens ==
  \A f \in Flows :
    /\ \A t \in Tokens :
         LoginReturns(f, t)
           => flows'[f].calls = <<Call("login", NoString), Call("get_devices", t)>>
    /\ \A u \in Usernames, t \in Tokens :
         StartImport(f, u, t) => flows'[f].calls = <<Call("get_devices", t)>>

\* C13: fresh setup calls login and then, only when login returned, get_devices
\* with the token login returned; legacy import never calls login and calls
\* get_devices once with the token it was given; re-authentication calls
\* login once per submission and never get_devices.
C13_RemoteCallOrder == []CallOrder /\ [][CallTokens]_vars

C13_Witness ==
  \E f, g \in Flows :
    /\ flows[f].source = SOURCE_USER
    /\ flows[f].calls = <<Call("login", NoString), Call("get_devices", "tok-456")>>
    /\ flows[f].result.type = "create_entry"
    /\ flows[g].source = SOURCE_REAUTH
    /\ flows[g].calls = <<Call("login", NoString)>>
    /\ flows[g].result = Abort("reauth_successful")

\* A record is added only by a session whose last remote call is a
\* get_devices that returned, made with the token the record stores.
RegistersValidated ==
  Len(entries') > Len(entries)
    => \E f \in Flows :
         /\ flows[f].source \in {SOURCE_USER, SOURCE_IMPORT}
         /\ Registers(f)
         /\ Last(flows[f].calls).fn = "get_devices"
         /\ Last(flows[f].calls).raised = NoExc
         /\ Len(entries') = Len(entries) + 1
         /\ Last(entries').data.token = Last(flows[f].calls).token

EnumerationFailureKeepsStore ==
  \A f \in Flows, exc \in Exceptions :
    flows[f].pc = "get_devices" /\ CreateClientRaises(f, exc)
      => /\ entries' = entries
         /\ flows'[f].pc = "finished"
         /\ flows'[f].result.type # "create_entry"

\* C14: in fresh setup and legacy import a record is registered only after
\* get_devices succeeded with the very token the record stores; when login
\* succeeds and device enumeration fails or times out, no record is created
\* and the entry store is unchanged.
C14_RegisteredOnlyAfterValidation ==
  [][RegistersValidated /\ EnumerationFailureKeepsStore]_vars

\* A fresh setup whose login returned and whose get_devices timed out has
\* ended with the store still empty.
C14_Witness ==
  \E f \in Flows :
    /\ flows[f].source = SOURCE_USER
    /\ flows[f].calls = <<Call("login", NoString),
                          [fn |-> "get_devices", token |-> "tok-123",
                           raised |-> TimeoutErrorExc]>>
    /\ flows[f].pc = "finished"
    /\ entries = <<>>

\* A failed submission leaves the session at the reauth_confirm form with its
\* entry, and a login that returns completes the session.
RetrySteps ==
  \A f \in Flows :
    /\ \A exc \in Exceptions :
         ReauthLoginDone(f, NoString, exc) /\ ReauthClassified(exc)
           => /\ flows'[f].pc = "prompt"
              /\ flows'[f].source = SOURCE_REAUTH
              /\ flows'[f].entry = flows[f].entry
              /\ flows'[f].result.errors = [base |-> ReauthPolicyKind(exc)]
    /\ \A t \in Tokens :
         ReauthLoginDone(f, t, NoExc)
           => flows'[f].result = Abort("reauth_successful")

\* The form of a re-authentication session shows the error of its last
\* submission alone: none before any submission or when the entry is missing.
ErrorsOfLastSubmission ==
  \A f \in Flows :
    flows[f].source = SOURCE_REAUTH /\ flows[f].pc = "prompt"
      => /\ flows[f].result.step_id = "reauth_confirm"
         /\ flows[f].result.errors =
              IF flows[f].calls = <<>> THEN NoErrors
              ELSE [base |-> ClassifyReauth(Last(flows[f].calls).raised)]
         /\ ~flows[f].submitted => flows[f].result.errors = NoErrors

\* At the reauth_confirm form of a session with an entry, whatever the form
\* shows, a submission can be made and it calls login.
CanRetry ==
  \A f \in Flows :
    flows[f].source = SOURCE_REAUTH /\ flows[f].pc = "prompt" /\ flows[f].entry # 0
      => ENABLED (\E u \in Usernames, p \in Passwords :
                    /\ SubmitReauth(f, u, p)
                    /\ flows'[f].pc = "login"
                    /\ flows'[f].calls = <<Call("login", NoString)>>)

\* C15: re-authentication is a retry loop: after failed submissions the
\* session is still at the reauth_confirm form, a later submission whose
\* login succeeds ends in reauth_successful, and the errors are those of the
\* most recent submission (a form shown without input carries none).
C15_ReauthRetryLoop ==
  [](ErrorsOfLastSubmission /\ CanRetry) /\ [][RetrySteps]_vars

\* A session that failed at least once has completed.
C15_Witness ==
  \E f \in Flows :
    /\ flows[f].source = SOURCE_REAUTH
    /\ flows[f].failed
    /\ flows[f].calls = <<Call("login", NoString)>>
    /\ flows[f].result = Abort("reauth_successful")
    /\ entries[flows[f].entry].data.token = "tok-456"

\* A reload is scheduled only by the step of a re-authentication whose login
\* returned; that step has updated the entry, schedules one reload of it and
\* ends the session while the reload is still pending.
ReloadSteps ==
  /\ tasks' # tasks /\ Len(tasks') >= Len(tasks)
       => \E f \in Flows, t \in Tokens :
            /\ ReauthLoginDone(f, t, NoExc)
            /\ entries'[flows[f].entry].data.token = t
  /\ \A f \in Flows, t \in Tokens :
       ReauthLoginDone(f, t, NoExc)
         => /\ entries'[flows[f].entry].data.token = t
            /\ tasks' = Append(tasks, flows[f].entry)
            /\ flows'[f].reloads = 1
            /\ flows'[f].pc = "finished"
            /\ flows'[f].result = Abort("reauth_successful")

ReloadCount ==
  \A f \in Flows :
    flows[f].reloads =
      IF flows[f].result = Abort("reauth_successful") THEN 1 ELSE 0

\* C16: on a successful re-authentication the entry carries the new
\* credential when its reload is scheduled, one reload is scheduled per
\* reauth_successful, the session ends without the reload having run, and no
\* reload is scheduled by a step that has not updated the credential.
C16_ReloadAfterUpdate == []ReloadCount /\ [][ReloadSteps]_vars

\* The session has ended and the reload it scheduled has not run yet.
C16_Witness ==
  \E f \in Flows :
    /\ flows[f].result = Abort("reauth_successful")
    /\ flows[f].reloads = 1
    /\ tasks = <<flows[f].entry>>
    /\ entries[flows[f].entry].data.token = "tok-456"

-----------------------------------------------------------------------------
\* A registration that finds its unique id configured aborts and leaves every
\* stored entry as it was.
DuplicateKeepsCredential ==
  \A f \in Flows :
    Registers(f) /\ EntryFor(entries, flows[f].unique_id) # {}
      => /\ entries' = entries
         /\ flows'[f].result = Abort("already_configured")

\* A stored token changes only in the step that ends a re-authentication
\* with reauth_successful, and only in that session's entry.
OnlyReauthChangesCredential ==
  \A i \in DOMAIN entries :
    entries'[i].data.token # entries[i].data.token
      => \E f \in Flows :
           /\ flows[f].source = SOURCE_REAUTH
           /\ flows[f].pc = "login"
           /\ flows[f].entry = i
           /\ flows'[f].result = Abort("reauth_successful")

-----------------------------------------------------------------------------
\* C18: the data of every stored entry holds both the username and the
\* token, also after a successful re-authentication has updated the entry.
C18_RecordHoldsIdentifierAndCredential ==
  \A i \in DOMAIN entries : {"username", "token"} \subseteq DOMAIN entries[i].data

-----------------------------------------------------------------------------
\* C19: the token stored in an entry is one issued for that entry's own
\* identifier; a re-authentication whose login succeeds for another
\* identifier does not replace the entry's token.
C19_CredentialIssuedForOwnIdentifier ==
  \A i \in DOMAIN entries : entries[i].data.token \in TokensOf[entries[i].unique_id]

-----------------------------------------------------------------------------
\* A re-authentication session whose entry reference resolved to no entry
\* stays at the reauth_confirm form without errors, has made no remote call
\* and scheduled no reload.
NoEntryNoProgress ==
  \A f \in Flows :
    flows[f].source = SOURCE_REAUTH /\ flows[f].entry = 0
      => /\ flows[f].pc = "prompt"
         /\ flows[f].result = ShowForm("reauth_confirm", NoErrors)
         /\ flows[f].calls = <<>>
         /\ flows[f].reloads = 0

\* A step of such a session writes nothing to the entry store and schedules
\* nothing, and the session keeps having no entry.
NoEntrySteps ==
  \A f \in Flows :
    flows[f].source = SOURCE_REAUTH /\ flows[f].entry = 0 /\ flows'[f] # flows[f]
      => /\ entries' = entries
         /\ tasks' = tasks
         /\ flows'[f].source = SOURCE_REAUTH
         /\ flows'[f].entry = 0
         /\ flows'[f].submitted

\* C20: when the entry reference of a re-authentication resolves to no stored
\* entry, every submission makes no remote call and no store write, shows the
\* reauth_confirm form again with no errors, and the session never reaches
\* reauth_successful.
C20_ReauthWithoutEntry == []NoEntryNoProgress /\ [][NoEntrySteps]_vars

\* A submission was made in a session without entry.
C20_Witness ==
  \E f \in Flows :
    /\ flows[f].source = SOURCE_REAUTH
    /\ flows[f].entry = 0
    /\ flows[f].submitted
    /\ flows[f].pc = "prompt"
    /\ flows[f].result = ShowForm("reauth_confirm", NoErrors)

====
